---- MODULE Spec2Model ----
(***************************************************************************)
(* A model of the access log store of accesslog/__init__.py: the logs      *)
(* table, LogEntry, AccessLog.create_log / get_log / search_logs /         *)
(* count_logs / prune_logs / delete_log / cooldown / anonymize_id /        *)
(* anonymize_log_origins.                                                  *)
(*                                                                         *)
(* Representation.                                                         *)
(*  - A Python number of seconds (time.time(), creation_time, period) is   *)
(*    an integer count of half seconds, so that int() truncates; the       *)
(*    creation_time column holds whole seconds.                            *)
(*  - An id is [t, v]: t is the form ("str" the canonical string, "bytes"  *)
(*    the 16 bytes), v the identifier's value, 0 for the empty id.         *)
(*  - An ip address object is [version, packed]; packed is a sequence of   *)
(*    bytes, 4 for IPv4 and 16 for IPv6.                                   *)
(*  - None is the record None; an omitted keyword argument is NoArg.       *)
(***************************************************************************)
EXTENDS Integers, Sequences, FiniteSets, TLC

VARIABLES rows, preset, now, op, pc, installed

vars == <<rows, preset, now, op, pc, installed>>

\* ------------------------------------------------------------------ bounds
MaxRows == 2
NumIds == 2
MaxNow == 8

\* ------------------------------------------------------------ python values
None == [t |-> "none"]
NoArg == [t |-> "noarg"]

Num(x) == [t |-> "num", v |-> x]
Str(s) == [t |-> "text", v |-> s]

IdVals == 1..NumIds
StrId(n) == [t |-> "str", v |-> n]
BytesId(n) == [t |-> "bytes", v |-> n]

\* int(x) of a number of half seconds: whole seconds, truncated towards zero
int(x) == IF x >= 0 THEN x \div 2 ELSE -((-x) \div 2)
\* a whole number of seconds as a python number
secs(n) == 2 * n

\* ----------------------------------------------------------- ip addresses
Zeros(n) == [i \in 1..n |-> 0]
LastBytes(s, n) == SubSeq(s, Len(s) - n + 1, Len(s))

\* ipaddress.ip_address(bytes): 4 bytes are an IPv4Address, 16 an IPv6Address
ip_address_bytes(b) == [version |-> IF Len(b) = 4 THEN 4 ELSE 6, packed |-> b]

\* int.from_bytes(packed, 'big'): the integer, written as 16 big-endian bytes
from_bytes(b) == Zeros(16 - Len(b)) \o b

\* n & ~mask, the mask being the low k bytes all ones
and_not_low(n, k) == [i \in 1..16 |-> IF i > 16 - k THEN 0 ELSE n[i]]

\* ipaddress.ip_address(int): IPv4Address when the integer is below 2**32,
\* IPv6Address otherwise
ip_address_int(n) ==
    IF SubSeq(n, 1, 12) = Zeros(12)
    THEN [version |-> 4, packed |-> LastBytes(n, 4)]
    ELSE [version |-> 6, packed |-> n]

V4(a, b, c, d) == [version |-> 4, packed |-> <<a, b, c, d>>]
V6(top, low) == [version |-> 6, packed |-> top \o low]

Loopback == V4(127, 0, 0, 1)
Origin4 == V4(1, 2, 3, 4)
Preset4 == V4(1, 1, 1, 1)
Origin6 == V6(<<32, 1, 13, 184, 133, 163>>, <<0, 0, 0, 0, 138, 46, 3, 112, 115, 52>>)
Low6 == V6(Zeros(6), <<0, 0, 0, 0, 0, 0, 0, 0, 0, 1>>)

\* ------------------------------------------------------- identifier codec
\* parse_id(x): (canonical string, 16 bytes) of an id given in either form
parse_id(x) == <<StrId(x.v), BytesId(x.v)>>
get_id_bytes(x) == parse_id(x)[2]

\* ---------------------------------------------------------------- LogEntry
\* the truth value python gives x
Truthy(x) ==
    /\ x # None /\ x # NoArg
    /\ x # StrId(0) /\ x # BytesId(0)
    /\ x # Num(0) /\ x # Str("")

Arg(kw, k, default) == IF kw[k] = NoArg THEN default ELSE kw[k]

\* LogEntry.__init__; g is the id generate_or_parse_id generates when none
\* is given, t the value of time.time()
LogEntry(kw, g, t) ==
    LET id == Arg(kw, "id", None)
        ct == Arg(kw, "creation_time", None)
        ids == IF id = None THEN <<StrId(g), BytesId(g)>> ELSE parse_id(id)
        sub == parse_id(Arg(kw, "subject_id", StrId(0)))
        obj == parse_id(Arg(kw, "object_id", StrId(0)))
    IN  [id |-> ids[1], id_bytes |-> ids[2],
         creation_time |-> int(IF ct = None THEN t ELSE ct.v),
         scope |-> Arg(kw, "scope", Str("")).v,
         remote_origin |-> Arg(kw, "remote_origin", Loopback),
         subject_id |-> sub[1], subject_id_bytes |-> sub[2],
         object_id |-> obj[1], object_id_bytes |-> obj[2]]

\* RowOf, storing every origin in the 16-byte IPv4-mapped layout
RowOf_mapped(log) ==
    [id |-> log.id_bytes, creation_time |-> log.creation_time,
     scope |-> log.scope,
     remote_origin |-> IF log.remote_origin.version = 4
                       THEN Zeros(10) \o <<255, 255>> \o log.remote_origin.packed
                       ELSE log.remote_origin.packed,
     subject_id |-> log.subject_id_bytes, object_id |-> log.object_id_bytes]

\* the row of the logs table create_log inserts for a LogEntry
RowOf(log) ==
    [id |-> log.id_bytes, creation_time |-> log.creation_time,
     scope |-> log.scope, remote_origin |-> log.remote_origin.packed,
     subject_id |-> log.subject_id_bytes, object_id |-> log.object_id_bytes]

\* the LogEntry search_logs builds from a row
EntryOf(row) ==
    LET id == parse_id(row.id)
        sub == parse_id(row.subject_id)
        obj == parse_id(row.object_id)
    IN  [id |-> id[1], id_bytes |-> id[2],
         creation_time |-> int(secs(row.creation_time)),
         scope |-> row.scope,
         remote_origin |-> ip_address_bytes(row.remote_origin),
         subject_id |-> sub[1], subject_id_bytes |-> sub[2],
         object_id |-> obj[1], object_id_bytes |-> obj[2]]

\* ------------------------------------------------- query predicate builder
\* A filter is a function from some of the filter keys to values; a value
\* given alone stands for the list holding it, and lists are sets here.
Has(filter, key) == key \in DOMAIN filter

id_filter(filter, field, cell) ==
    Has(filter, field) => cell \in {get_id_bytes(x) : x \in filter[field]}

time_cutoff_filter(filter, field, cell) ==
    /\ Has(filter, field \o "_before") => secs(cell) < filter[field \o "_before"]
    /\ Has(filter, field \o "_after") => secs(cell) > filter[field \o "_after"]

string_equal_filter(filter, field, cell) ==
    Has(filter, field) => cell \in filter[field]

remote_origin_filter(filter, field, cell) ==
    Has(filter, field) => cell \in {o.packed : o \in filter[field]}

\* ------------------------------------------------------------ the store
\* prepare_logs_search_statement without its object_ids conditions
prepare_logs_search_statement_no_object(filter, row) ==
    /\ id_filter(filter, "ids", row.id)
    /\ time_cutoff_filter(filter, "created", row.creation_time)
    /\ string_equal_filter(filter, "scopes", row.scope)
    /\ remote_origin_filter(filter, "remote_origins", row.remote_origin)
    /\ id_filter(filter, "subject_ids", row.subject_id)

\* the WHERE clause of prepare_logs_search_statement, for one row
prepare_logs_search_statement(filter, row) ==
    /\ id_filter(filter, "ids", row.id)
    /\ time_cutoff_filter(filter, "created", row.creation_time)
    /\ string_equal_filter(filter, "scopes", row.scope)
    /\ remote_origin_filter(filter, "remote_origins", row.remote_origin)
    /\ id_filter(filter, "subject_ids", row.subject_id)
    /\ id_filter(filter, "object_ids", row.object_id)

Select(table, filter) == {r \in table : prepare_logs_search_statement(filter, r)}

count_logs(table, filter) == Cardinality(Select(table, filter))

\* ORDER BY creation_time, id: the position of a row among the selected ones
Before(a, b) ==
    \/ a.creation_time < b.creation_time
    \/ a.creation_time = b.creation_time /\ a.id.v < b.id.v

\* the sorts search_logs allows, and the sort it falls back to
allowed_sorts == {"creation_time", "id"}
sort_column(sort) == IF sort \in allowed_sorts THEN sort ELSE "creation_time"

\* a comes before b in the order asked for: ascending unless order is
\* "desc", ties on the column broken by id
Precedes(a, b, sort, order) ==
    LET asc(x, y) == IF sort_column(sort) = "id" THEN x.id.v < y.id.v ELSE Before(x, y)
    IN  IF order = "desc" THEN asc(b, a) ELSE asc(a, b)

\* sort_statement, then the rows the statement fetches, in order
RECURSIVE sort_statement(_, _, _)
sort_statement(S, sort, order) ==
    IF S = {} THEN <<>>
    ELSE LET first == CHOOSE a \in S : \A b \in S \ {a} : ~Precedes(b, a, sort, order)
         IN  <<first>> \o sort_statement(S \ {first}, sort, order)

Min(a, b) == IF a < b THEN a ELSE b

\* paginate_statement: LIMIT perpage OFFSET page * perpage when perpage is
\* given, every row otherwise
paginate_statement(result, page, perpage) ==
    IF ~Truthy(perpage) THEN result
    ELSE SubSeq(result, page * perpage.v + 1,
                Min(Len(result), (page + 1) * perpage.v))

\* search_logs that leaves paginate_statement out
search_logs_unpaged(table, filter, sort, order, page, perpage) ==
    LET result == sort_statement(Select(table, filter), sort, order)
    IN  [i \in 1..Len(result) |-> EntryOf(result[i])]

\* search_logs(filter, sort, order, page, perpage): the IDCollection, as the
\* sequence of its LogEntry values in the order they were added
search_logs(table, filter, sort, order, page, perpage) ==
    LET result == paginate_statement(
                      sort_statement(Select(table, filter), sort, order),
                      page, perpage)
    IN  [i \in 1..Len(result) |-> EntryOf(result[i])]

\* IDCollection.get(id)
collection_get(logs, id) ==
    LET hits == {i \in 1..Len(logs) : logs[i].id = parse_id(id)[1]}
    IN  IF hits = {} THEN None ELSE logs[CHOOSE i \in hits : TRUE]

get_log(table, id) ==
    collection_get(search_logs(table, [ids |-> {id}], "", "", 0, None), id)

\* insert into a table whose id column is no primary key
insert_no_key(table, row) == [rows |-> table \cup {row}, err |-> "none"]

\* connection.execute(logs.insert(), ...): the primary key on id rejects a
\* row whose id the table holds
insert(table, row) ==
    IF \E r \in table : r.id = row.id
    THEN [rows |-> table, err |-> "IntegrityError"]
    ELSE [rows |-> table \cup {row}, err |-> "none"]

\* create_log up to its LogEntry, were the preset to replace any origin
create_entry_preset_first(kw, g, t, pre) ==
    LogEntry(IF Truthy(pre) THEN [kw EXCEPT !.remote_origin = pre] ELSE kw, g, t)

\* create_log up to the LogEntry it builds
create_entry(kw, g, t, pre) ==
    LogEntry(IF kw.remote_origin = NoArg /\ Truthy(pre)
             THEN [kw EXCEPT !.remote_origin = pre] ELSE kw, g, t)

\* create_log without its preflight check
create_log_no_preflight(table, kw, g, t, pre) ==
    LET log == create_entry(kw, g, t, pre)
        done == insert(table, RowOf(log))
    IN  [rows |-> done.rows,
         log |-> IF done.err = "none" THEN log ELSE None,
         err |-> done.err]

create_log(table, kw, g, t, pre) ==
    LET log == create_entry(kw, g, t, pre)
    IN  IF count_logs(table, [ids |-> {log.id_bytes}]) > 0
        THEN [rows |-> table, log |-> None, err |-> "Log ID collision"]
        ELSE LET done == insert(table, RowOf(log))
             IN  [rows |-> done.rows,
                  log |-> IF done.err = "none" THEN log ELSE None,
                  err |-> done.err]

\* prune_logs(created_before)
prune_logs(table, created_before) ==
    {r \in table :
        ~(/\ 0 # r.creation_time
          /\ Truthy(created_before) => int(created_before.v) > r.creation_time)}

\* delete_log whose DELETE has no WHERE once the id is found
delete_log_all(table, id) ==
    IF \E r \in table : r.id = get_id_bytes(id) THEN {} ELSE table

\* delete_log(id)
delete_log(table, id) == {r \in table : r.id # get_id_bytes(id)}

\* cooldown in which a preset origin replaces the origin given
cooldown_preset_first(table, pre, t, scope, amount, period, remote_origin, subject_id) ==
    LET start_time == t - period
        origin == IF Truthy(pre) THEN pre ELSE remote_origin
        by_origin == [scopes |-> {scope}, created_after |-> start_time,
                      remote_origins |-> {origin}]
        by_subject == [scopes |-> {scope}, created_after |-> start_time,
                       subject_id |-> {subject_id}]
    IN  IF Truthy(origin) /\ amount <= count_logs(table, by_origin) THEN TRUE
        ELSE IF Truthy(subject_id) /\ amount <= count_logs(table, by_subject) THEN TRUE
        ELSE FALSE

\* cooldown that counts the rows of the scope when it has no axis to check
cooldown_scope_alone(table, pre, t, scope, amount, period, remote_origin, subject_id) ==
    LET start_time == t - period
        origin == IF ~Truthy(remote_origin) /\ Truthy(pre) THEN pre ELSE remote_origin
        by_origin == [scopes |-> {scope}, created_after |-> start_time,
                      remote_origins |-> {origin}]
        by_subject == [scopes |-> {scope}, created_after |-> start_time,
                       subject_id |-> {subject_id}]
        by_scope == [scopes |-> {scope}, created_after |-> start_time]
    IN  IF Truthy(origin) /\ amount <= count_logs(table, by_origin) THEN TRUE
        ELSE IF Truthy(subject_id) /\ amount <= count_logs(table, by_subject) THEN TRUE
        ELSE ~Truthy(origin) /\ ~Truthy(subject_id)
             /\ amount <= count_logs(table, by_scope)

\* cooldown(scope, amount, period, remote_origin, subject_id) at time t
cooldown(table, pre, t, scope, amount, period, remote_origin, subject_id) ==
    LET start_time == t - period
        origin == IF ~Truthy(remote_origin) /\ Truthy(pre) THEN pre ELSE remote_origin
        by_origin == [scopes |-> {scope}, created_after |-> start_time,
                      remote_origins |-> {origin}]
        by_subject == [scopes |-> {scope}, created_after |-> start_time,
                       subject_id |-> {subject_id}]
    IN  IF Truthy(origin) /\ amount <= count_logs(table, by_origin) THEN TRUE
        ELSE IF Truthy(subject_id) /\ amount <= count_logs(table, by_subject) THEN TRUE
        ELSE FALSE

\* anonymize_id whose second UPDATE is missing
anonymize_id_subject_only(table, id, new_id, g) ==
    LET old == get_id_bytes(id)
        new == IF ~Truthy(new_id) THEN BytesId(g) ELSE new_id
    IN  [rows |-> {IF r.subject_id = old THEN [r EXCEPT !.subject_id = new] ELSE r :
                     r \in table},
         new_id |-> new]

\* the lists that hold each member of S once
Listings(S) ==
    {l \in [1..Cardinality(S) -> S] : \A i, j \in DOMAIN l : i # j => l[i] # l[j]}

\* get_unique_scopes whose SELECT has no GROUP BY: one entry for each row
get_unique_scopes_each_row(table) ==
    {[i \in DOMAIN l |-> l[i].scope] : l \in Listings(table)}

\* get_unique_scopes(): SELECT scope ... GROUP BY scope gives one row for
\* each scope, in an order the statement does not fix; the lists it may return
get_unique_scopes(table) == Listings({r.scope : r \in table})

update_subject(table, old, new) ==
    {IF r.subject_id = old THEN [r EXCEPT !.subject_id = new] ELSE r : r \in table}

\* the second UPDATE of anonymize_id: object_id = new where object_id = old
update_object(table, old, new) ==
    {IF r.object_id = old THEN [r EXCEPT !.object_id = new] ELSE r : r \in table}

\* anonymize_id(id, new_id); g is the id uuid4 generates when none is given
anonymize_id(table, id, new_id, g) ==
    LET old == get_id_bytes(id)
        new == IF ~Truthy(new_id) THEN BytesId(g) ELSE new_id
        first == update_subject(table, old, new)
        second == update_object(first, old, new)
    IN  [rows |-> second, new_id |-> new]

\* the origin anonymize_log_origins computes for one LogEntry
anonymized_origin(log) ==
    IF 4 = log.remote_origin.version
    THEN ip_address_int(and_not_low(from_bytes(log.remote_origin.packed), 2))
    ELSE ip_address_int(and_not_low(from_bytes(log.remote_origin.packed), 10))

\* the UPDATE of one LogEntry, were it to leave creation_time to its default
anonymize_one_default_time(table, log) ==
    {IF r.id = log.id_bytes
     THEN [r EXCEPT !.remote_origin = anonymized_origin(log).packed,
                    !.creation_time = 0]
     ELSE r :
        r \in table}

\* the UPDATE anonymize_log_origins runs for one LogEntry
anonymize_one(table, log) ==
    {IF r.id = log.id_bytes
     THEN [r EXCEPT !.remote_origin = anonymized_origin(log).packed] ELSE r :
        r \in table}

\* anonymize_log_origins(logs), logs the sequence of the collection's values
RECURSIVE anonymize_log_origins(_, _)
anonymize_log_origins(table, logs) ==
    IF logs = <<>> THEN table
    ELSE anonymize_log_origins(anonymize_one(table, Head(logs)), Tail(logs))

\* ------------------------------------------------------------ call inputs
Kw(id, ct, scope, origin, subject, object) ==
    [id |-> id, creation_time |-> ct, scope |-> scope, remote_origin |-> origin,
     subject_id |-> subject, object_id |-> object]

GivenIds == {StrId(n) : n \in IdVals}

\* what the callers of the store pass besides the id
StoreProfiles ==
    { Kw(NoArg, NoArg, NoArg, NoArg, NoArg, NoArg),
      Kw(NoArg, Num(secs(1)), Str("a"), Origin6, NoArg, StrId(1)),
      Kw(NoArg, Num(0), Str("b"), Low6, BytesId(1), BytesId(1)) }

\* what the callers of create, get, delete and prune pass besides the id
LifeProfiles ==
    { Kw(NoArg, NoArg, NoArg, NoArg, NoArg, NoArg),
      Kw(NoArg, Num(secs(1)), Str("a"), Origin4, BytesId(1), StrId(2)),
      Kw(NoArg, Num(0), Str("b"), Origin6, NoArg, BytesId(1)),
      Kw(NoArg, Num(7), Str("a"), Low6, StrId(1), NoArg),
      Kw(NoArg, Num(-3), Str(""), Loopback, NoArg, NoArg) }

WithIds(profiles) ==
    {[k EXCEPT !.id = id] : k \in profiles, id \in GivenIds \cup {NoArg}}

\* the ids generate_or_parse_id may generate for a call
Generated(kw) == IF kw.id = NoArg THEN IdVals ELSE {0}

Idle == [p \in {1, 2} |-> [st |-> "idle"]]

\* a statement on the logs table when the table is dropped: execute raises
\* and the call ends
NoTable(call) ==
    /\ op' = [name |-> "error", call |-> call, err |-> "OperationalError"]
    /\ UNCHANGED <<rows, preset, now, pc, installed>>

\* -------------------------------------------------- operations, one at a time
Create(kw, g) ==
    IF ~installed THEN NoTable("create_log")
    ELSE \E r \in {create_log(rows, kw, g, now, preset)} :
             /\ Cardinality(r.rows) <= MaxRows
             /\ rows' = r.rows
             /\ op' = [name |-> "create", kw |-> kw, g |-> g, t |-> now,
                       log |-> r.log, err |-> r.err]
             /\ UNCHANGED <<preset, now, pc, installed>>

GetLog(id) ==
    IF ~installed THEN NoTable("get_log")
    ELSE /\ op' = [name |-> "get", id |-> id, result |-> get_log(rows, id),
                   created |-> IF op.name = "create" /\ op.err = "none" THEN op ELSE None]
         /\ UNCHANGED <<rows, preset, now, pc, installed>>

Delete(id) ==
    IF ~installed THEN NoTable("delete_log")
    ELSE \E after \in {delete_log(rows, id)} :
             /\ rows' = after
             /\ op' = [name |-> "delete", id |-> id, removed |-> Cardinality(rows \ after)]
             /\ UNCHANGED <<preset, now, pc, installed>>

Prune(created_before) ==
    IF ~installed THEN NoTable("prune_logs")
    ELSE \E after \in {prune_logs(rows, created_before)} :
             /\ rows' = after
             /\ op' = [name |-> "prune", created_before |-> created_before,
                       removed |-> Cardinality(rows \ after)]
             /\ UNCHANGED <<preset, now, pc, installed>>

AnonymizeId(id, new_id, g) ==
    IF ~installed THEN NoTable("anonymize_id")
    ELSE \E r \in {anonymize_id(rows, id, new_id, g)} :
             /\ rows' = r.rows
             /\ op' = [name |-> "anonymize_id", id |-> id, new_id |-> r.new_id,
                       changed |-> Cardinality(rows \ r.rows)]
             /\ UNCHANGED <<preset, now, pc, installed>>

\* the caller searches, then hands the collection to anonymize_log_origins
AnonymizeLogOrigins(filter) ==
    IF ~installed THEN NoTable("search_logs")
    ELSE \E logs \in {search_logs(rows, filter, "", "", 0, None)} :
             /\ rows' = anonymize_log_origins(rows, logs)
             /\ op' = [name |-> "anonymize_origins", logs |-> logs]
             /\ UNCHANGED <<preset, now, pc, installed>>

UniqueScopes ==
    IF ~installed THEN NoTable("get_unique_scopes")
    ELSE \E result \in get_unique_scopes(rows) :
             /\ op' = [name |-> "unique_scopes", result |-> result]
             /\ UNCHANGED <<rows, preset, now, pc, installed>>

\* uninstall(): DROP TABLE, which raises when the table is not there. A
\* create_log between its check and its insert has checked a table that is
\* gone: it no longer counts as racing another for it.
Uninstall ==
    IF ~installed THEN NoTable("uninstall")
    ELSE /\ rows' = {}
         /\ installed' = FALSE
         /\ op' = [name |-> "uninstall"]
         /\ pc' = [p \in DOMAIN pc |->
                     IF pc[p].st = "checked" THEN [pc[p] EXCEPT !.raced = FALSE]
                     ELSE pc[p]]
         /\ UNCHANGED <<preset, now>>

\* AccessLog(engine, install=True) on the database: the table is created
\* when it is not there, and left with its rows when it is
Install ==
    /\ installed' = TRUE
    /\ op' = [name |-> "install"]
    /\ UNCHANGED <<rows, preset, now, pc>>

Tick ==
    /\ now < MaxNow
    /\ now' = now + 1
    /\ op' = [name |-> "tick"]
    /\ UNCHANGED <<rows, preset, pc, installed>>

Init ==
    /\ rows = {}
    /\ preset \in {None, Preset4}
    /\ now = secs(3)
    /\ op = [name |-> "init"]
    /\ pc = Idle
    /\ installed \in BOOLEAN

Cutoffs == {None, Num(0), Num(secs(1)), Num(secs(3)), Num(-secs(1))}

Next ==
    \/ \E kw \in WithIds(StoreProfiles) : \E g \in Generated(kw) : Create(kw, g)
    \/ \E id \in GivenIds : GetLog(id)
    \/ \E id \in GivenIds : Delete(id)
    \/ \E cb \in {None, Num(secs(1))} : Prune(cb)
    \/ \E new_id \in {None, BytesId(2)} :
         \E g \in (IF new_id = None THEN {1, 2} ELSE {0}) :
            AnonymizeId(BytesId(1), new_id, g)
    \/ \E f \in {<<>>} \cup {[ids |-> {id}] : id \in GivenIds} : AnonymizeLogOrigins(f)
    \/ Uninstall
    \/ Install

Spec == Init /\ [][Next]_vars

\* create, get, delete and prune alone, over more kinds of record
LifeNext ==
    \/ \E kw \in WithIds(LifeProfiles) : \E g \in Generated(kw) : Create(kw, g)
    \/ \E id \in GivenIds : GetLog(id)
    \/ \E id \in GivenIds : Delete(id)
    \/ \E cb \in Cutoffs : Prune(cb)
    \/ UniqueScopes
    \/ Uninstall
    \/ Install

SpecLife == Init /\ [][LifeNext]_vars

\* ------------------------------------------------------------ rate limits
\* cooldown runs a count, which needs the table, when it has an axis
Counts(remote_origin, subject_id) ==
    Truthy(remote_origin) \/ Truthy(preset) \/ Truthy(subject_id)

\* cooldown, were it to keep the origin it is given as the store's preset
Cooldown_keeping_origin(scope, amount, period, remote_origin, subject_id) ==
    /\ op' = IF ~installed /\ Counts(remote_origin, subject_id)
             THEN [name |-> "error", call |-> "cooldown", err |-> "OperationalError",
                   remote_origin |-> remote_origin, subject_id |-> subject_id]
             ELSE [name |-> "cooldown", scope |-> scope, amount |-> amount,
                   period |-> period, remote_origin |-> remote_origin,
                   subject_id |-> subject_id,
                   result |-> cooldown(rows, preset, now, scope, amount, period,
                                       remote_origin, subject_id)]
    /\ preset' = IF Truthy(remote_origin) THEN remote_origin ELSE preset
    /\ UNCHANGED <<rows, now, pc, installed>>

Cooldown(scope, amount, period, remote_origin, subject_id) ==
    /\ op' = IF ~installed /\ Counts(remote_origin, subject_id)
             THEN [name |-> "error", call |-> "cooldown", err |-> "OperationalError",
                   remote_origin |-> remote_origin, subject_id |-> subject_id]
             ELSE [name |-> "cooldown", scope |-> scope, amount |-> amount,
                   period |-> period, remote_origin |-> remote_origin,
                   subject_id |-> subject_id,
                   result |-> cooldown(rows, preset, now, scope, amount, period,
                                       remote_origin, subject_id)]
    /\ UNCHANGED <<rows, preset, now, pc, installed>>

\* what the callers that are rate limited log: the id is generated
CooldownProfiles ==
    { Kw(NoArg, NoArg, Str("a"), NoArg, BytesId(1), NoArg),
      Kw(NoArg, NoArg, Str("a"), Origin4, BytesId(2), NoArg),
      Kw(NoArg, Num(secs(1)), Str("a"), Origin4, BytesId(1), NoArg),
      Kw(NoArg, NoArg, Str("b"), Origin4, BytesId(1), NoArg) }

CooldownNext ==
    \/ \E kw \in CooldownProfiles : \E g \in IdVals : Create(kw, g)
    \/ Tick
    \/ \E amount \in 1..2, period \in {secs(1), 5},
          remote_origin \in {None, Origin4}, subject_id \in {None, BytesId(1), BytesId(2)} :
            Cooldown("a", amount, period, remote_origin, subject_id)
    \/ Uninstall
    \/ Install

SpecCooldown == Init /\ [][CooldownNext]_vars

\* ---------------------------------------------------------------- queries
Search(filter) ==
    IF ~installed THEN NoTable("search_logs")
    ELSE /\ op' = [name |-> "search", filter |-> filter,
                   result |-> search_logs(rows, filter, "", "", 0, None)]
         /\ UNCHANGED <<rows, preset, now, pc, installed>>

Count(filter) ==
    IF ~installed THEN NoTable("count_logs")
    ELSE /\ op' = [name |-> "count", filter |-> filter, result |-> count_logs(rows, filter)]
         /\ UNCHANGED <<rows, preset, now, pc, installed>>

\* search_logs with a sort, an order, a page and a page size
SearchPage(filter, sort, order, page, perpage) ==
    IF ~installed THEN NoTable("search_logs")
    ELSE /\ op' = [name |-> "search_page", filter |-> filter, sort |-> sort,
                   order |-> order, page |-> page, perpage |-> perpage,
                   result |-> search_logs(rows, filter, sort, order, page, perpage)]
         /\ UNCHANGED <<rows, preset, now, pc, installed>>

\* what the callers that page through the log pass
Sorts == {"creation_time", "id", "scope"}
Orders == {"", "asc", "desc"}
Pages == 0..2
PageSizes == {None, Num(1), Num(2)}
PageFilters == {<<>>, "scopes" :> {"a", "c"}}

SearchProfiles ==
    { Kw(NoArg, Num(secs(1)), Str("a"), Origin4, BytesId(1), NoArg),
      Kw(NoArg, Num(secs(3)), Str("a"), Origin6, BytesId(2), BytesId(1)),
      Kw(NoArg, Num(secs(1)), Str("c"), Origin4, NoArg, BytesId(1)),
      Kw(NoArg, Num(secs(2)), Str("b"), Loopback, BytesId(1), StrId(2)) }

\* a filter with the key, for each of the values, or without it
Opt(key, values) == {<<>>} \cup {key :> v : v \in values}

\* every subset of the keys on ids, scopes, origins, subjects and objects
KeyFilters ==
    {a @@ b @@ c @@ d @@ e :
        a \in Opt("ids", {{StrId(1)}}),
        b \in Opt("scopes", {{"a", "b"}}),
        c \in Opt("remote_origins", {{Origin4}}),
        d \in Opt("subject_ids", {{BytesId(1)}}),
        e \in Opt("object_ids", {{BytesId(1), StrId(2)}})}

\* the time range, alone and with a scope
RangeFilters ==
    {b @@ f @@ g :
        b \in Opt("scopes", {{"a"}}),
        f \in Opt("created_after", {secs(1)}),
        g \in Opt("created_before", {secs(3)})}

Filters ==
    {k @@ r : k \in KeyFilters,
              r \in {<<>>, ("created_after" :> secs(1)) @@ ("created_before" :> secs(3))}}
    \cup RangeFilters
    \cup {r @@ ("subject_id" :> {BytesId(2)}) : r \in RangeFilters}

SearchInit ==
    /\ rows = {}
    /\ preset = None
    /\ now = secs(3)
    /\ op = [name |-> "init"]
    /\ pc = Idle
    /\ installed \in BOOLEAN

SearchNext ==
    \/ \E kw \in {[k EXCEPT !.id = id] : k \in SearchProfiles, id \in GivenIds} :
         Create(kw, 0)
    \/ \E id \in GivenIds : Delete(id)
    \/ \E f \in Filters : Search(f)
    \/ \E f \in Filters : Count(f)
    \/ Uninstall
    \/ Install

SpecSearch == SearchInit /\ [][SearchNext]_vars

\* paging through the log while records are created and deleted
PageNext ==
    \/ \E kw \in {[k EXCEPT !.id = id] : k \in SearchProfiles, id \in GivenIds} :
         Create(kw, 0)
    \/ \E id \in GivenIds : Delete(id)
    \/ \E f \in PageFilters, sort \in Sorts, order \in Orders,
          page \in Pages, perpage \in PageSizes :
            SearchPage(f, sort, order, page, perpage)
    \/ Uninstall
    \/ Install

SpecPage == SearchInit /\ [][PageNext]_vars

\* ------------------------------------------------------ concurrent creates
\* Two callers run create_log at once: each runs the preflight count, then
\* the insert, and the statements of the two interleave.
Procs == {1, 2}
Other(p) == CHOOSE q \in Procs : q # p

\* create_log up to and including its preflight check
CreateCheck(p, kw) ==
    /\ pc[p].st = "idle"
    /\ \E log \in {create_entry(kw, 0, now, preset)} :
         IF ~installed
         THEN pc' = [pc EXCEPT ![p] = [st |-> "done", log |-> log,
                                       err |-> "OperationalError", raced |-> FALSE]]
         ELSE IF count_logs(rows, [ids |-> {log.id_bytes}]) > 0
         THEN pc' = [pc EXCEPT ![p] = [st |-> "done", log |-> log,
                                       err |-> "Log ID collision", raced |-> FALSE]]
         ELSE LET race == pc[Other(p)].st = "checked"
                          /\ pc[Other(p)].log.id_bytes = log.id_bytes
              IN  pc' = [q \in Procs |->
                           IF q = p THEN [st |-> "checked", log |-> log, raced |-> race]
                           ELSE IF race THEN [pc[q] EXCEPT !.raced = TRUE]
                           ELSE pc[q]]
    /\ op' = [name |-> "check", p |-> p]
    /\ UNCHANGED <<rows, preset, now, installed>>

\* the insert of create_log, and its return
CreateInsert(p) ==
    /\ pc[p].st = "checked"
    /\ \E done \in {IF installed THEN insert(rows, RowOf(pc[p].log))
                     ELSE [rows |-> rows, err |-> "OperationalError"]} :
         /\ Cardinality(done.rows) <= MaxRows
         /\ rows' = done.rows
         /\ pc' = [pc EXCEPT ![p] = [st |-> "done", log |-> pc[p].log,
                                     err |-> done.err, raced |-> pc[p].raced]]
    /\ op' = [name |-> "insert", p |-> p]
    /\ UNCHANGED <<preset, now, installed>>

\* the caller goes on to its next call
Return(p) ==
    /\ pc[p].st = "done"
    /\ pc' = [pc EXCEPT ![p] = [st |-> "idle"]]
    /\ op' = [name |-> "return", p |-> p]
    /\ UNCHANGED <<rows, preset, now, installed>>

ConcNext ==
    \/ \E p \in Procs :
         \E kw \in {[k EXCEPT !.id = id] : k \in SearchProfiles, id \in GivenIds} :
            CreateCheck(p, kw)
    \/ \E p \in Procs : CreateInsert(p)
    \/ \E p \in Procs : Return(p)
    \/ Uninstall
    \/ Install

SpecConc == SearchInit /\ [][ConcNext]_vars

\* ------------------------------------------- anonymization by statements
\* One caller runs anonymize_id or anonymize_log_origins statement by
\* statement while get_log reads the table; a statement may fail, and the
\* call then ends where it is. Nothing else writes or drops the table
\* during the call, which the first caller makes.
Quiet == \A p \in Procs : pc[p].st = "idle"

QuietCreate(kw, g) == Quiet /\ Create(kw, g)

QuietUninstall == Quiet /\ Uninstall

\* anonymize_id up to and including its first UPDATE
AnonymizeIdSubject(p, id, new_id, g) ==
    /\ Quiet
    /\ IF ~installed THEN NoTable("anonymize_id")
       ELSE /\ \E new \in {IF ~Truthy(new_id) THEN BytesId(g) ELSE new_id} :
                 /\ rows' = update_subject(rows, get_id_bytes(id), new)
                 /\ pc' = [pc EXCEPT ![p] =
                             [st |-> "subject_updated", call |-> "anonymize_id",
                              id |-> id, new_id |-> new, before |-> rows]]
            /\ op' = [name |-> "update_subject", p |-> p]
            /\ UNCHANGED <<preset, now, installed>>

\* the second UPDATE of anonymize_id, and its return
AnonymizeIdObject(p) ==
    /\ pc[p].st = "subject_updated"
    /\ rows' = update_object(rows, get_id_bytes(pc[p].id), pc[p].new_id)
    /\ pc' = [pc EXCEPT ![p] = [pc[p] EXCEPT !.st = "done"]]
    /\ op' = [name |-> "update_object", p |-> p]
    /\ UNCHANGED <<preset, now, installed>>

\* the caller's search, and anonymize_log_origins up to its first UPDATE
AnonymizeOriginsSearch(p, filter) ==
    /\ Quiet
    /\ IF ~installed THEN NoTable("search_logs")
       ELSE /\ \E logs \in {search_logs(rows, filter, "", "", 0, None)} :
                 pc' = [pc EXCEPT ![p] =
                         [st |-> IF logs = <<>> THEN "done" ELSE "updating_origins",
                          call |-> "anonymize_origins",
                          logs |-> logs, todo |-> logs, before |-> rows]]
            /\ op' = [name |-> "search_origins", p |-> p]
            /\ UNCHANGED <<rows, preset, now, installed>>

\* the UPDATE of anonymize_log_origins for the next record, and the return
\* after the last one
AnonymizeOriginsUpdate(p) ==
    /\ pc[p].st = "updating_origins"
    /\ rows' = anonymize_one(rows, Head(pc[p].todo))
    /\ pc' = [pc EXCEPT ![p] = [pc[p] EXCEPT
                 !.st = IF Tail(pc[p].todo) = <<>> THEN "done" ELSE "updating_origins",
                 !.todo = Tail(pc[p].todo)]]
    /\ op' = [name |-> "update_origin", p |-> p]
    /\ UNCHANGED <<preset, now, installed>>

\* connection.execute raises before the next statement runs: the call ends
StatementFails(p) ==
    /\ pc[p].st \in {"subject_updated", "updating_origins"}
    /\ pc' = [pc EXCEPT ![p] = [pc[p] EXCEPT !.st = "done"]]
    /\ op' = [name |-> "failed", p |-> p]
    /\ UNCHANGED <<rows, preset, now, installed>>

StepsNext ==
    \/ \E kw \in WithIds(StoreProfiles) : \E g \in Generated(kw) : QuietCreate(kw, g)
    \/ \E id \in GivenIds : GetLog(id)
    \/ \E p \in {1} : \E new_id \in {None, BytesId(2)} :
         \E g \in (IF new_id = None THEN {1, 2} ELSE {0}) :
            AnonymizeIdSubject(p, BytesId(1), new_id, g)
    \/ \E p \in Procs : AnonymizeIdObject(p)
    \/ \E p \in {1} : \E f \in {<<>>} \cup {[ids |-> {id}] : id \in GivenIds} :
         AnonymizeOriginsSearch(p, f)
    \/ \E p \in Procs : AnonymizeOriginsUpdate(p)
    \/ \E p \in Procs : StatementFails(p)
    \/ \E p \in Procs : Return(p)
    \/ QuietUninstall
    \/ Install

SpecSteps == Init /\ [][StepsNext]_vars

\* ---------------------------------------------------------------- claims
\* the id a create call is for
CallId(o) == IF o.kw.id = NoArg THEN BytesId(o.g) ELSE get_id_bytes(o.kw.id)

UniqueIds(table) == \A a, b \in table : a.id = b.id => a = b

\* C1: over create, delete, prune, anonymize_id and anonymize_origins made
\* one at a time, no two rows share an id, and a create for an id a row of
\* the store has fails with the collision error and leaves the rows as they
\* were.
C1_UniqueIdsAndCollision ==
    [][/\ UniqueIds(rows')
       /\ (op'.name = "create" /\ \E r \in rows : r.id = CallId(op'))
            => (op'.err = "Log ID collision" /\ rows' = rows)]_vars

C1_Witness ==
    /\ op.name = "create"
    /\ op.err = "Log ID collision"
    /\ Cardinality(rows) = 2
    /\ \E r \in rows : r.id = CallId(op)

\* a given id and the id of a LogEntry are the same id
SameId(given, id, id_bytes) ==
    IF given.t = "str" THEN id = given ELSE id_bytes = given

\* create's keyword arguments are valid: the creation time is an integer
ValidKw(kw) == kw.creation_time = NoArg \/ kw.creation_time.v % 2 = 0

\* a create that succeeded, then get_log of the id it returned
CreateThenGet == op.name = "get" /\ op.created # None /\ op.id = op.created.log.id

\* C3: after a successful create of valid arguments, get_log of its id
\* returns a record whose every field is the value given to create, or the
\* field's default where none was given.
C3_RoundTrip ==
    (CreateThenGet /\ ValidKw(op.created.kw)) =>
        LET kw == op.created.kw
            got == op.result
        IN  /\ got # None
            /\ IF kw.id = NoArg THEN got.id = op.created.log.id
               ELSE SameId(kw.id, got.id, got.id_bytes)
            /\ IF kw.creation_time = NoArg
               THEN secs(got.creation_time) <= op.created.t
                    /\ op.created.t < secs(got.creation_time + 1)
               ELSE secs(got.creation_time) = kw.creation_time.v
            /\ got.scope = (IF kw.scope = NoArg THEN "" ELSE kw.scope.v)
            /\ got.remote_origin =
                 (IF kw.remote_origin # NoArg THEN kw.remote_origin
                  ELSE IF preset # None THEN preset ELSE Loopback)
            /\ IF kw.subject_id = NoArg THEN got.subject_id = StrId(0)
               ELSE SameId(kw.subject_id, got.subject_id, got.subject_id_bytes)
            /\ IF kw.object_id = NoArg THEN got.object_id = StrId(0)
               ELSE SameId(kw.object_id, got.object_id, got.object_id_bytes)

C3_Witness ==
    /\ CreateThenGet
    /\ op.created.kw.remote_origin = Origin4
    /\ op.created.kw.subject_id = BytesId(1)
    /\ op.result # None
    /\ op.result.remote_origin.version = 4

\* the cutoff of a prune call is an integer
WholeCutoff(cb) == cb # None /\ cb.v % 2 = 0

\* C7: prune with an integer cutoff deletes exactly the rows whose
\* creation_time is nonzero and less than the cutoff; without a cutoff it
\* deletes exactly the rows whose creation_time is nonzero; rows with
\* creation_time 0 survive.
C7_PruneExact ==
    [][op'.name = "prune" =>
        /\ WholeCutoff(op'.created_before) =>
             rows' = {r \in rows :
                        ~(r.creation_time # 0
                          /\ secs(r.creation_time) < op'.created_before.v)}
        /\ op'.created_before = None =>
             rows' = {r \in rows : r.creation_time = 0}
        /\ \A r \in rows : r.creation_time = 0 => r \in rows']_vars

\* the row anonymize_id(old) -> new is to leave in place of r
Renamed(r, old, new) ==
    [r EXCEPT !.subject_id = IF @ = old THEN new ELSE @,
              !.object_id = IF @ = old THEN new ELSE @]

\* C8: after anonymize_id(X) returns N # X, no row has subject_id or
\* object_id X, every row that had X as subject_id or object_id has N there,
\* the number of rows is the same and no other field has changed.
C8_AnonymizeId ==
    [][(op'.name = "anonymize_id" /\ op'.new_id # get_id_bytes(op'.id)) =>
        LET X == get_id_bytes(op'.id)
        IN  /\ \A r \in rows' : r.subject_id # X /\ r.object_id # X
            /\ rows' = {Renamed(r, X, op'.new_id) : r \in rows}
            /\ Cardinality(rows') = Cardinality(rows)]_vars

C8_Witness ==
    /\ op.name = "anonymize_id"
    /\ op.new_id # get_id_bytes(op.id)
    /\ op.changed = 2
    /\ \E r \in rows : r.subject_id = op.new_id /\ r.object_id = op.new_id
    /\ \E r \in rows : r.subject_id # op.new_id /\ r.object_id = op.new_id

\* C9: anonymize_origins stores, for a record with an IPv4 origin, the IPv4
\* address with the low 16 bits cleared, and for a record with an IPv6
\* origin the IPv6 address with the low 80 bits cleared; the family of the
\* stored origin does not change.
C9_MaskKeepsFamily ==
    [][op'.name = "anonymize_origins" =>
        \A i \in 1..Len(op'.logs) : \A r \in rows' :
            LET was == op'.logs[i].remote_origin
            IN  r.id = op'.logs[i].id_bytes =>
                  /\ was.version = 4 =>
                       r.remote_origin = SubSeq(was.packed, 1, 2) \o Zeros(2)
                  /\ was.version = 6 =>
                       r.remote_origin = SubSeq(was.packed, 1, 6) \o Zeros(10)
                  /\ ip_address_bytes(r.remote_origin).version = was.version]_vars

\* the rows of a scope created after now - period
InWindow(table, scope, period) ==
    {r \in table : r.scope = scope /\ secs(r.creation_time) > now - period}

\* C4: with no origin given and none preset, cooldown for subject S is true
\* exactly when at least `amount` rows of the scope inside the window have
\* subject_id S.
C4_SubjectAxis ==
    (/\ op.name = "cooldown"
     /\ op.remote_origin = None /\ preset = None
     /\ op.subject_id # None) =>
        (op.result <=>
            op.amount <= Cardinality({r \in InWindow(rows, op.scope, op.period) :
                                        r.subject_id = get_id_bytes(op.subject_id)}))

\* the origin the origin axis of a cooldown call is about
AxisOrigin(o) == IF o.remote_origin # None THEN o.remote_origin ELSE preset

OriginCount(o) ==
    Cardinality({r \in InWindow(rows, o.scope, o.period) :
                   r.remote_origin = AxisOrigin(o).packed})

\* C5: the origin axis counts the rows of the scope and window whose origin
\* is the origin given, the preset one only when none is given; when that
\* count reaches `amount` cooldown is true whatever the subject_id, and with
\* no subject_id it is true only then.
C5_OriginAxis ==
    (op.name = "cooldown" /\ AxisOrigin(op) # None) =>
        /\ op.amount <= OriginCount(op) => op.result
        /\ op.subject_id = None => (op.result => op.amount <= OriginCount(op))

C5_Witness ==
    /\ op.name = "cooldown"
    /\ op.remote_origin = Origin4 /\ preset = Preset4
    /\ op.subject_id = BytesId(2)
    /\ op.amount = 1 /\ OriginCount(op) = 1
    /\ \E r \in rows : r.remote_origin = Preset4.packed
    /\ \A r \in rows : r.remote_origin = Origin4.packed => r.subject_id # BytesId(2)
    /\ op.result

SubjectCount(o) ==
    Cardinality({r \in InWindow(rows, o.scope, o.period) :
                   r.subject_id = get_id_bytes(o.subject_id)})

\* C6: cooldown counts only the matching rows created after now - period:
\* it is true exactly when, on an axis the call has, at least `amount` rows
\* matching the axis lie inside the window.
C6_WindowCount ==
    op.name = "cooldown" =>
        (op.result <=>
            \/ AxisOrigin(op) # None /\ op.amount <= OriginCount(op)
            \/ op.subject_id # None /\ op.amount <= SubjectCount(op))

\* The window alone, which holds under SpecCooldown on both axes: a call
\* answers as it would with the rows outside the window gone, and with the
\* origin axis alone it is true exactly when `amount` rows of the origin lie
\* inside the window.
WindowApplied ==
    op.name = "cooldown" =>
        /\ op.result = cooldown(InWindow(rows, op.scope, op.period), preset, now,
                                op.scope, op.amount, op.period,
                                op.remote_origin, op.subject_id)
        /\ (AxisOrigin(op) # None /\ op.subject_id = None) =>
             (op.result <=> op.amount <= OriginCount(op))

\* C2: when two creates for one id both pass the preflight check before
\* either inserts, the store never holds two rows with that id, only one of
\* the two inserts and the other ends in an error (the two racing for one
\* table: the table is not dropped between a check and its insert).
C2_RacingCreates ==
    /\ UniqueIds(rows)
    /\ \A p \in Procs :
         LET q == Other(p)
         IN  (/\ pc[p].st = "done" /\ pc[p].raced
              /\ pc[q].st = "done" /\ pc[q].raced
              /\ pc[p].log.id_bytes = pc[q].log.id_bytes) =>
                /\ pc[p].err # "none" \/ pc[q].err # "none"
                /\ Cardinality({r \in rows : r.id = pc[p].log.id_bytes}) <= 1

C2_Witness ==
    /\ pc[1].st = "done" /\ pc[1].raced /\ pc[1].err = "none"
    /\ pc[2].st = "done" /\ pc[2].raced /\ pc[2].err = "IntegrityError"
    /\ pc[1].log.id_bytes = pc[2].log.id_bytes
    /\ pc[1].log.scope # pc[2].log.scope

\* the rows a filter asks for: every key given holds of the row, a row
\* holding for a key when it has one of the key's values
Asked(filter, r) ==
    /\ Has(filter, "ids") => \E x \in filter.ids : x.v = r.id.v
    /\ Has(filter, "scopes") => \E x \in filter.scopes : x = r.scope
    /\ Has(filter, "remote_origins") =>
         \E x \in filter.remote_origins : x = ip_address_bytes(r.remote_origin)
    /\ Has(filter, "subject_ids") => \E x \in filter.subject_ids : x.v = r.subject_id.v
    /\ Has(filter, "object_ids") => \E x \in filter.object_ids : x.v = r.object_id.v
    /\ Has(filter, "created_after") => secs(r.creation_time) > filter.created_after
    /\ Has(filter, "created_before") => secs(r.creation_time) < filter.created_before

\* C10: search returns exactly the rows that hold for every key of the
\* filter, count returns their number, and a key that is not a filter key
\* changes neither.
C10_FilterExact ==
    /\ op.name = "search" =>
         /\ {op.result[i].id_bytes : i \in 1..Len(op.result)}
              = {r.id : r \in {x \in rows : Asked(op.filter, x)}}
         /\ Len(op.result) = Cardinality({x \in rows : Asked(op.filter, x)})
         /\ \A i \in 1..Len(op.result) : RowOf(op.result[i]) \in rows
    /\ op.name = "count" =>
         op.result = Cardinality({x \in rows : Asked(op.filter, x)})

C10_Witness ==
    /\ op.name = "search"
    /\ DOMAIN op.filter = {"scopes", "object_ids", "created_after", "created_before"}
    /\ Len(op.result) = 1
    /\ Cardinality(rows) = 2
    /\ \A r \in rows : r.scope \in op.filter.scopes /\ r.object_id.v \in {1, 2}
    /\ \E r \in rows : r.creation_time = 3

\* the ids of a sequence of records, in order
IdsOf(logs) == [i \in 1..Len(logs) |-> logs[i].id_bytes.v]

Reverse(seq) == [i \in 1..Len(seq) |-> seq[Len(seq) + 1 - i]]

RECURSIVE Concat(_)
Concat(seqs) == IF seqs = <<>> THEN <<>> ELSE Head(seqs) \o Concat(Tail(seqs))

\* ceil(n / k)
CeilDiv(n, k) == (n + k - 1) \div k

\* the sequence is in ascending order of the column, ties in id order
Ascending(logs, column) ==
    \A i, j \in 1..Len(logs) :
        i < j => IF column = "id" THEN logs[i].id_bytes.v < logs[j].id_bytes.v
                 ELSE \/ logs[i].creation_time < logs[j].creation_time
                      \/ /\ logs[i].creation_time = logs[j].creation_time
                         /\ logs[i].id_bytes.v < logs[j].id_bytes.v

\* C11: for the sorts creation_time and id and each order, the search over
\* the n rows a filter asks for, with page size k, has ceil(n/k) non-empty
\* pages and none after them, the pages share no record, and their
\* concatenation in page order is the unpaginated result, which is sorted by
\* the column with ties in id order; the descending result is the reverse
\* of the ascending one.
C11_Pagination ==
    (op.name = "search_page" /\ op.sort \in allowed_sorts /\ op.order \in {"asc", "desc"}
     /\ op.perpage # None) =>
        LET k == op.perpage.v
            page(p) == search_logs(rows, op.filter, op.sort, op.order, p, op.perpage)
            whole == search_logs(rows, op.filter, op.sort, op.order, 0, None)
            n == Cardinality({r \in rows : Asked(op.filter, r)})
            count == CeilDiv(n, k)
            all == Concat([p \in 1..count |-> page(p - 1)])
        IN  /\ op.result = page(op.page)
            /\ \A p \in 0..(count - 1) : page(p) # <<>> /\ Len(page(p)) <= k
            /\ page(count) = <<>>
            /\ all = whole
            /\ \A i, j \in 1..Len(all) : i # j => all[i].id_bytes # all[j].id_bytes
            /\ {RowOf(whole[i]) : i \in 1..Len(whole)} = {r \in rows : Asked(op.filter, r)}
            /\ Ascending(IF op.order = "desc" THEN Reverse(whole) ELSE whole, op.sort)
            /\ search_logs(rows, op.filter, op.sort, "desc", 0, None)
                 = Reverse(search_logs(rows, op.filter, op.sort, "asc", 0, None))

\* the second of two pages of one record each, of two rows created in the
\* same second, in descending order of creation_time
C11_Witness ==
    /\ op.name = "search_page"
    /\ op.sort = "creation_time" /\ op.order = "desc"
    /\ op.perpage = Num(1) /\ op.page = 1 /\ op.filter = <<>>
    /\ Cardinality(rows) = 2
    /\ \A a, b \in rows : a.creation_time = b.creation_time
    /\ IdsOf(op.result) = <<1>>

\* C12: delete(id) removes the row with that id and no other row, get(id)
\* is absent after it, and when no row has the id the rows stay as they
\* were and the call ends without an error; on a store whose table is
\* installed no delete ends in an error.
C12_DeleteExact ==
    [][/\ op'.name = "delete" =>
            /\ rows' = {r \in rows : r.id.v # op'.id.v}
            /\ get_log(rows', op'.id) = None
            /\ (\A r \in rows : r.id.v # op'.id.v) => rows' = rows
            /\ op'.removed = Cardinality({r \in rows : r.id.v = op'.id.v})
       /\ (op'.name = "error" /\ op'.call = "delete_log") => ~installed]_vars

\* a delete that removed one of two rows
C12_Witness ==
    /\ op.name = "delete"
    /\ op.removed = 1
    /\ Cardinality(rows) = 1
    /\ \A r \in rows : r.id.v # op.id.v

\* C13: the stored remote_origin of every row is 16 bytes long, whether
\* the row was created with an IPv4 or an IPv6 origin, before and after
\* anonymize_origins.
C13_OriginSixteenBytes == \A r \in rows : Len(r.remote_origin) = 16

\* the rows a call in progress or ended is to leave, given the rows it began with
WholeEffect(c) ==
    IF c.call = "anonymize_id"
    THEN anonymize_id(c.before, c.id, c.new_id, 0).rows
    ELSE anonymize_log_origins(c.before, c.logs)

\* C14: a mutating operation takes effect as one step: while the call runs,
\* and after it has returned or failed, the rows are those before the call
\* or those with the whole of its effect, never those with a part of it
\* (subject_id renamed and object_id not, one origin masked and another
\* not).
C14_NoPartialEffect ==
    \A p \in Procs :
        pc[p].st \in {"subject_updated", "updating_origins", "done"} =>
            rows \in {pc[p].before, WholeEffect(pc[p])}

\* C15: a row that stays in the store keeps its id, creation_time and
\* scope; its subject_id and object_id change only by anonymize_id, its
\* remote_origin only by anonymize_origins; and a row whose id no row had
\* is the row of a create that succeeded.
C15_FieldsKept ==
    [][\A new \in rows' :
         /\ \A old \in rows :
              old.id = new.id =>
                /\ new.creation_time = old.creation_time
                /\ new.scope = old.scope
                /\ (new.subject_id # old.subject_id \/ new.object_id # old.object_id)
                     => op'.name = "anonymize_id"
                /\ new.remote_origin # old.remote_origin
                     => op'.name = "anonymize_origins"
         /\ (\A old \in rows : old.id # new.id) =>
              /\ op'.name = "create" /\ op'.err = "none"
              /\ new = RowOf(op'.log)]_vars

\* anonymize_origins has masked the origin of one of two rows
C15_Witness ==
    /\ op.name = "anonymize_origins"
    /\ Len(op.logs) = 1
    /\ Cardinality(rows) = 2
    /\ \E r \in rows :
         /\ r.id = op.logs[1].id_bytes
         /\ r.remote_origin # op.logs[1].remote_origin.packed
         /\ r.creation_time = op.logs[1].creation_time
         /\ r.creation_time # 0

\* C16: cooldown writes nothing: the rows and the preset origin after the
\* call are those before it, whatever its arguments and its answer, and
\* also when its count raises for want of the table.
C16_CooldownReadOnly ==
    [][(op'.name = "cooldown" \/ (op'.name = "error" /\ op'.call = "cooldown"))
        => rows' = rows /\ preset' = preset]_vars

\* a cooldown that answered true on an origin given, with an origin preset
C16_Witness ==
    /\ op.name = "cooldown"
    /\ op.result
    /\ op.remote_origin = Origin4 /\ preset = Preset4
    /\ Cardinality(rows) = 2

\* the origin a create call is to record
OriginAsked(kw) ==
    IF kw.remote_origin # NoArg THEN kw.remote_origin
    ELSE IF preset # None THEN preset
    ELSE V4(127, 0, 0, 1)

\* C17: the record a create returns, and the row it stores, have the origin
\* passed to create when one is passed, else the preset origin when the
\* store has one, else 127.0.0.1; a preset never replaces an origin passed.
C17_OriginDefault ==
    (op.name = "create" /\ op.err = "none") =>
        /\ op.log.remote_origin = OriginAsked(op.kw)
        /\ \E r \in rows : /\ r.id = op.log.id_bytes
                            /\ r.remote_origin = OriginAsked(op.kw).packed
        /\ get_log(rows, op.log.id).remote_origin = OriginAsked(op.kw)

\* a create with an origin passed, on a store with a preset origin
C17_Witness ==
    /\ op.name = "create" /\ op.err = "none"
    /\ preset = Preset4
    /\ op.kw.remote_origin = Origin6
    /\ \E r \in rows : r.remote_origin = Origin6.packed
    /\ \E r \in rows : r.remote_origin = Preset4.packed

\* C18: the creation_time of every row is a non-negative integer, whatever
\* creation_time was passed to create.
C18_CreationTimeNonNegative == \A r \in rows : r.creation_time \in Nat

\* C19: after creates, deletes and prunes, unique_scopes returns each scope
\* that a row of the store has exactly once, and no scope that no row has.
C19_UniqueScopes ==
    op.name = "unique_scopes" =>
        /\ \A r \in rows :
             Cardinality({i \in DOMAIN op.result : op.result[i] = r.scope}) = 1
        /\ \A i \in DOMAIN op.result : \E r \in rows : r.scope = op.result[i]

\* two rows of one scope, listed once
C19_Witness ==
    /\ op.name = "unique_scopes"
    /\ Cardinality(rows) = 2
    /\ op.result = <<"a">>

\* C20: cooldown with no origin given, no origin preset and no subject_id
\* answers false for every scope, amount and period and every store, one
\* with `amount` or more rows of the scope inside the window included; it
\* runs no count, so it answers false without the table too.
C20_NoAxisFalse ==
    /\ (/\ op.name = "cooldown"
        /\ op.remote_origin = None /\ preset = None
        /\ op.subject_id = None) => ~op.result
    /\ (op.name = "error" /\ op.call = "cooldown") =>
         ~(op.remote_origin = None /\ preset = None /\ op.subject_id = None)

\* such a call on a store with `amount` rows of the scope inside the window
C20_Witness ==
    /\ op.name = "cooldown"
    /\ op.remote_origin = None /\ preset = None /\ op.subject_id = None
    /\ op.amount = 2
    /\ Cardinality(InWindow(rows, op.scope, op.period)) = 2
    /\ ~op.result

====
